---- MODULE Spec2Model ----
(***************************************************************************)
(* Model of the training pipeline of train/flow.py (HTTP trigger, lock,    *)
(* Loader, Evaluator, Registrar), of the recursion between run_pytest and  *)
(* tests/test_pytest_runner.py, and of create_oversized_model in           *)
(* train/create_failure_models.py.                                         *)
(***************************************************************************)
EXTENDS Integers, Sequences, FiniteSets, TLC

VARIABLES
    pipeline_lock,   \* flow.py:16   asyncio.Lock(): TRUE while held
    req,             \* per POST /trigger-training request: handler + flow state
    modelVersions,   \* registry: version i of MODEL_NAME was registered by run modelVersions[i]
    alias,           \* registry: version the alias "development" points to (None if unset)
    stack,           \* the innermost nested pytest processes started through run_pytest
    below,           \* there are further pytest processes outside of stack
    topCaller,       \* who launched the outermost pytest suite
    topResult,       \* what the outermost call returned ("pending" until it returns)
    launchFailed,    \* some subprocess launch raised
    gen              \* create_oversized_model: position, sizes, output

mainVars   == <<pipeline_lock, req, modelVersions, alias>>
pytestVars == <<stack, below, topCaller, topResult, launchFailed>>
genVars    == <<gen>>
vars       == <<pipeline_lock, req, modelVersions, alias,
                stack, below, topCaller, topResult, launchFailed, gen>>

----------------------------------------------------------------------------
(* Bounds *)
\* Number of POST /trigger-training requests.
MaxRequests == 2

Requests == 1 .. MaxRequests

----------------------------------------------------------------------------
(* Program constants *)
MODEL_PATH == "food11.pth"
MODEL_NAME == "GourmetGramFood11Model"
None == -1

\* Scenario strings a caller may send: the three of the table and two the
\* table does not know.
Scenarios == {"normal", "bad-architecture", "oversized", "Normal", ""}

----------------------------------------------------------------------------
(* Artifact Selector: the dict of load_and_train_model and its fallback *)
scenario_to_model ==
    [s \in {"normal", "bad-architecture", "oversized"} |->
        CASE s = "normal"           -> "food11.pth"
          [] s = "bad-architecture" -> "bad_model.pth"
          [] s = "oversized"        -> "oversized_model.pth"]

\* Variant: the fallback substitutes the wrong key of the table.
SelectModelPathWrongDefault(scenario) ==
    LET s == IF scenario \notin DOMAIN scenario_to_model THEN "oversized" ELSE scenario
    IN  scenario_to_model[s]

SelectModelPath(scenario) ==
    LET s == IF scenario \notin DOMAIN scenario_to_model THEN "normal" ELSE scenario
    IN  scenario_to_model[s]

\* The selector logs a warning exactly when it substitutes "normal".
SelectWarns(scenario) == scenario \notin DOMAIN scenario_to_model

----------------------------------------------------------------------------
(* The artifacts on disk and torch.load *)
\* What each file unpickles to: food11.pth is the MobileNetV2 the app
\* expects, bad_model.pth is the ResNet18 that create_bad_model saves with
\* torch.save(model, ...), oversized_model.pth is the OversizedModel wrapper.
Artifacts ==
    [p \in {"food11.pth", "bad_model.pth", "oversized_model.pth"} |->
        CASE p = "food11.pth"          -> "MobileNetV2"
          [] p = "bad_model.pth"       -> "ResNet18"
          [] p = "oversized_model.pth" -> "OversizedModel"]

\* Variant: a loader that insists on the architecture the app expects.
TorchLoadChecksArchitecture(path, memOk) ==
    IF (path = "oversized_model.pth" /\ ~memOk) \/ Artifacts[path] = "ResNet18"
    THEN [raised |-> TRUE,  model |-> "none"]
    ELSE [raised |-> FALSE, model |-> Artifacts[path]]

\* torch.load(path, weights_only=False): returns whatever module was pickled,
\* without looking at its architecture; the oversized artifact raises
\* MemoryError when the host has not enough memory.
TorchLoad(path, memOk) ==
    IF path = "oversized_model.pth" /\ ~memOk
    THEN [raised |-> TRUE,  model |-> "none"]
    ELSE [raised |-> FALSE, model |-> Artifacts[path]]

----------------------------------------------------------------------------
(* Model Loader: load_and_train_model *)
\* memOk: the host can hold the artifact; logModelOk: mlflow.pytorch.log_model
\* succeeds.  No try/except: either call's exception leaves the task.
load_and_train_model(scenario, memOk, logModelOk) ==
    LET model_path == SelectModelPath(scenario)
        loaded     == TorchLoad(model_path, memOk)
    IN  IF loaded.raised
        THEN [raised |-> TRUE, error |-> "torch.load", model_path |-> model_path,
              model |-> "none", warned |-> SelectWarns(scenario), failures |-> {}]
        ELSE IF ~logModelOk
        THEN [raised |-> TRUE, error |-> "log_model", model_path |-> model_path,
              model |-> loaded.model, warned |-> SelectWarns(scenario),
              failures |-> {"log_model"}]
        ELSE [raised |-> FALSE, error |-> "none", model_path |-> model_path,
              model |-> loaded.model, warned |-> SelectWarns(scenario), failures |-> {}]

----------------------------------------------------------------------------
(* Evaluator: evaluate_model *)
\* The captured output (stdout + stderr) as a sequence of words.
DigitVal == [t \in {"0", "1", "2", "3", "4"} |->
                CASE t = "0" -> 0 [] t = "1" -> 1 [] t = "2" -> 2
                  [] t = "3" -> 3 [] t = "4" -> 4]

Outputs == { << >>,
             <<"4", "passed">>,
             <<"1", "failed", "3", "passed">>,
             <<"2", "failed">>,
             <<"1", "xpassed", "1", "failed">>,
             <<"error">> }

ExitCodes == {0, 1, 2}

\* "passed" in output_lines is a substring test: "xpassed" contains it too.
ContainsPassed(out) == \E i \in 1 .. Len(out) : out[i] \in {"passed", "xpassed"}

\* re.search(r'(\d+) <word>', output_lines): the leftmost number that is
\* followed by a blank and the word; None when there is no such place.
Matches(out, word) ==
    {i \in 1 .. Len(out) - 1 : out[i] \in DOMAIN DigitVal /\ out[i + 1] = word}

SearchCount(out, word) ==
    IF Matches(out, word) = {} THEN None
    ELSE LET i == CHOOSE j \in Matches(out, word) :
                      \A k \in Matches(out, word) : j <= k
         IN  DigitVal[out[i]]

ParseCounts(out) ==
    IF ContainsPassed(out)
    THEN LET passed_match == SearchCount(out, "passed")
             failed_match == SearchCount(out, "failed")
             tests_passed == IF passed_match # None THEN passed_match ELSE 0
             tests_failed == IF failed_match # None THEN failed_match ELSE 0
         IN  [tests_passed |-> tests_passed, tests_failed |-> tests_failed,
              tests_total  |-> tests_passed + tests_failed]
    ELSE [tests_passed |-> 0, tests_failed |-> 0, tests_total |-> 0]

Metric(name, value) == [name |-> name, value |-> value]

\* The three mlflow.log_metric calls of the try block (120-122) and of the
\* except block (129-131).
TryMetrics(c) == << Metric("tests_passed", c.tests_passed),
                    Metric("tests_failed", c.tests_failed),
                    Metric("tests_total",  c.tests_total) >>

\* Variant: the except block forgets the total.
ExceptMetricsNoTotal == << Metric("tests_passed", 0),
                           Metric("tests_failed", 0) >>

ExceptMetrics == << Metric("tests_passed", 0),
                    Metric("tests_failed", 0),
                    Metric("tests_total",  0) >>

\* launchOk: subprocess.run returned (rc, out) rather than raising.
\* tryFail / excFail: which of the three log_metric calls of the try block /
\* of the except block raises (0: none).  Everything from subprocess.run to
\* the return at line 124 is inside try ... except Exception, so an exception
\* of log_metric in the try block enters the except block as well.
evaluate_model(launchOk, rc, out, tryFail, excFail) ==
    LET all_tests_passed == (rc = 0)
        tryLogs  == TryMetrics(ParseCounts(out))
        tryDone  == IF ~launchOk THEN << >>
                    ELSE IF tryFail = 0 THEN tryLogs
                    ELSE SubSeq(tryLogs, 1, tryFail - 1)
        tryFails == IF launchOk /\ tryFail # 0 THEN {"log_metric"} ELSE {}
        excDone  == IF excFail = 0 THEN ExceptMetrics
                    ELSE SubSeq(ExceptMetrics, 1, excFail - 1)
    IN  IF launchOk /\ tryFail = 0
        THEN [raised |-> FALSE, error |-> "none", ret |-> all_tests_passed,
              metrics |-> tryDone, failures |-> {}, handled |-> FALSE]
        ELSE IF excFail = 0
        THEN [raised |-> FALSE, error |-> "none", ret |-> FALSE,
              metrics |-> tryDone \o excDone, failures |-> tryFails,
              handled |-> TRUE]
        ELSE [raised |-> TRUE, error |-> "log_metric", ret |-> FALSE,
              metrics |-> tryDone \o excDone,
              failures |-> tryFails \cup {"log_metric"}, handled |-> TRUE]

----------------------------------------------------------------------------
(* Registrar: register_model_if_passed *)
\* Variant: the gate on `passed` is missing.
register_model_ungated(passed, run, versions, curAlias, registerOk, aliasOk) ==
    IF ~registerOk
    THEN [raised |-> TRUE, error |-> "register_model", ret |-> None,
          versions |-> versions, alias |-> curAlias,
          regCalls |-> 1, aliasCalls |-> 0, failures |-> {"register_model"}]
    ELSE IF ~aliasOk
    THEN [raised |-> TRUE, error |-> "set_registered_model_alias",
          ret |-> None, versions |-> Append(versions, run), alias |-> curAlias,
          regCalls |-> 1, aliasCalls |-> 1,
          failures |-> {"set_registered_model_alias"}]
    ELSE [raised |-> FALSE, error |-> "none", ret |-> Len(versions) + 1,
          versions |-> Append(versions, run), alias |-> Len(versions) + 1,
          regCalls |-> 1, aliasCalls |-> 1, failures |-> {}]

\* Variant: the alias call is given the version count from before the
\* registration.
register_model_alias_behind(passed, run, versions, curAlias, registerOk, aliasOk) ==
    IF ~passed
    THEN [raised |-> FALSE, error |-> "none", ret |-> None,
          versions |-> versions, alias |-> curAlias,
          regCalls |-> 0, aliasCalls |-> 0, failures |-> {}]
    ELSE IF ~registerOk
    THEN [raised |-> TRUE, error |-> "register_model", ret |-> None,
          versions |-> versions, alias |-> curAlias,
          regCalls |-> 1, aliasCalls |-> 0, failures |-> {"register_model"}]
    ELSE IF ~aliasOk
    THEN [raised |-> TRUE, error |-> "set_registered_model_alias",
          ret |-> None, versions |-> Append(versions, run), alias |-> curAlias,
          regCalls |-> 1, aliasCalls |-> 1,
          failures |-> {"set_registered_model_alias"}]
    ELSE [raised |-> FALSE, error |-> "none", ret |-> Len(versions) + 1,
          versions |-> Append(versions, run), alias |-> Len(versions),
          regCalls |-> 1, aliasCalls |-> 1, failures |-> {}]

\* run: the active run whose artifact "runs:/<run_id>/model" is registered.
\* The registry assigns the next version number of MODEL_NAME.
register_model_if_passed(passed, run, versions, curAlias, registerOk, aliasOk) ==
    IF ~passed
    THEN [raised |-> FALSE, error |-> "none", ret |-> None,
          versions |-> versions, alias |-> curAlias,
          regCalls |-> 0, aliasCalls |-> 0, failures |-> {}]
    ELSE IF ~registerOk
    THEN [raised |-> TRUE, error |-> "register_model", ret |-> None,
          versions |-> versions, alias |-> curAlias,
          regCalls |-> 1, aliasCalls |-> 0, failures |-> {"register_model"}]
    ELSE LET registered == Append(versions, run)
             version    == Len(registered)
         IN  IF ~aliasOk
             THEN [raised |-> TRUE, error |-> "set_registered_model_alias",
                   ret |-> None, versions |-> registered, alias |-> curAlias,
                   regCalls |-> 1, aliasCalls |-> 1,
                   failures |-> {"set_registered_model_alias"}]
             ELSE [raised |-> FALSE, error |-> "none", ret |-> version,
                   versions |-> registered, alias |-> version,
                   regCalls |-> 1, aliasCalls |-> 1, failures |-> {}]

----------------------------------------------------------------------------
(* HTTP trigger and flow: state of one request *)
NoResponse == [status_code |-> 0, status |-> "", has_version |-> FALSE,
               new_model_version |-> None]

NewRequest ==
    [pc         |-> "idle",     \* idle, load, evaluate, register, returned, raised, responded
     scenario   |-> "",
     started    |-> {},         \* tasks of the flow that were started
     completed  |-> {},         \* tasks of the flow that returned
     model_path |-> "",
     model      |-> "none",
     launched   |-> FALSE,      \* subprocess.run returned a completed process
     returncode |-> None,
     handled    |-> FALSE,      \* evaluate_model went through its except block
     passed     |-> FALSE,      \* return value of evaluate_model
     metrics    |-> << >>,      \* successful mlflow.log_metric calls of the run
     failures   |-> {},         \* tracking/registry calls that raised
     regCalls   |-> 0,
     aliasCalls |-> 0,
     version    |-> None,       \* return value of register_model_if_passed
     error      |-> "none",     \* call whose exception left ml_pipeline_flow
     response   |-> NoResponse]

\* Variant: the first version of the registry is taken for "nothing".
TruthyAboveOne(version) == version # None /\ version > 1

\* Python truthiness of the flow's return value (None and 0 are falsy).
Truthy(version) == version # None /\ version # 0

\* Variant: the locked() test never sees the lock held.
LockedNever(lock) == FALSE

Locked(lock) == lock

\* POST /trigger-training.  The handler runs on the event loop: from the
\* locked() test to the await of run_in_executor nothing suspends (acquire of
\* a free asyncio.Lock returns without yielding), so test and acquire are one
\* step.
trigger_training(r, scenario) ==
    /\ req[r].pc = "idle"
    /\ IF Locked(pipeline_lock)
       THEN /\ req' = [req EXCEPT ![r].pc = "responded",
                                  ![r].response =
                                      [status_code |-> 423,
                                       status |-> "Pipeline is already running. Please wait.",
                                       has_version |-> FALSE,
                                       new_model_version |-> None]]
            /\ UNCHANGED pipeline_lock
       ELSE /\ pipeline_lock' = TRUE
            /\ req' = [req EXCEPT ![r].pc = "load", ![r].scenario = scenario]
    /\ UNCHANGED <<modelVersions, alias>>
    /\ UNCHANGED <<pytestVars, genVars>>

\* ml_pipeline_flow, first task.
LoadStep(r) ==
    /\ req[r].pc = "load"
    /\ \E memOk \in BOOLEAN, logModelOk \in BOOLEAN :
         LET res == load_and_train_model(req[r].scenario, memOk, logModelOk)
         IN  req' = [req EXCEPT
                 ![r].pc         = IF res.raised THEN "raised" ELSE "evaluate",
                 ![r].started    = @ \cup {"load_and_train_model"},
                 ![r].completed  = IF res.raised THEN @ ELSE @ \cup {"load_and_train_model"},
                 ![r].model_path = res.model_path,
                 ![r].model      = res.model,
                 ![r].failures   = @ \cup res.failures,
                 ![r].error      = res.error]
    /\ UNCHANGED <<pipeline_lock, modelVersions, alias>>
    /\ UNCHANGED <<pytestVars, genVars>>

\* ml_pipeline_flow, second task.
EvaluateStep(r) ==
    /\ req[r].pc = "evaluate"
    /\ \E launchOk \in BOOLEAN, rc \in ExitCodes, out \in Outputs,
          tryFail \in 0 .. 3, excFail \in 0 .. 3 :
         LET res == evaluate_model(launchOk, rc, out, tryFail, excFail)
         IN  req' = [req EXCEPT
                 ![r].pc         = IF res.raised THEN "raised" ELSE "register",
                 ![r].started    = @ \cup {"evaluate_model"},
                 ![r].completed  = IF res.raised THEN @ ELSE @ \cup {"evaluate_model"},
                 ![r].launched   = launchOk,
                 ![r].returncode = IF launchOk THEN rc ELSE None,
                 ![r].handled    = res.handled,
                 ![r].passed     = res.ret,
                 ![r].metrics    = res.metrics,
                 ![r].failures   = @ \cup res.failures,
                 ![r].error      = res.error]
    /\ UNCHANGED <<pipeline_lock, modelVersions, alias>>
    /\ UNCHANGED <<pytestVars, genVars>>

\* ml_pipeline_flow, third task and the flow's return.
RegisterStep(r) ==
    /\ req[r].pc = "register"
    /\ \E registerOk \in BOOLEAN, aliasOk \in BOOLEAN :
         LET res == register_model_if_passed(req[r].passed, r, modelVersions,
                                             alias, registerOk, aliasOk)
         IN  /\ req' = [req EXCEPT
                    ![r].pc         = IF res.raised THEN "raised" ELSE "returned",
                    ![r].started    = @ \cup {"register_model_if_passed"},
                    ![r].completed  = IF res.raised THEN @
                                      ELSE @ \cup {"register_model_if_passed"},
                    ![r].regCalls   = res.regCalls,
                    ![r].aliasCalls = res.aliasCalls,
                    ![r].version    = res.ret,
                    ![r].failures   = @ \cup res.failures,
                    ![r].error      = res.error]
             /\ modelVersions' = res.versions
             /\ alias' = res.alias
    /\ UNCHANGED pipeline_lock
    /\ UNCHANGED <<pytestVars, genVars>>

ml_pipeline_flow(r) == LoadStep(r) \/ EvaluateStep(r) \/ RegisterStep(r)

\* The body the handler returns for the flow's return value.
ResponseBody(version) ==
    IF Truthy(version)
    THEN [status_code |-> 200, status |-> "Pipeline executed successfully",
          has_version |-> TRUE, new_model_version |-> version]
    ELSE [status_code |-> 200,
          status |-> "Pipeline executed, but no new model registered",
          has_version |-> FALSE, new_model_version |-> None]

\* What is left of a run once the worker has handed its result to the
\* handler: the locals of the tasks and the active tracking run are gone, the
\* flow's return value (or exception) and the fact of which tasks ran remain.
EndRun(q) ==
    [NewRequest EXCEPT !.pc = q.pc,
                       !.started = q.started, !.completed = q.completed,
                       !.version = q.version]

\* Variant: the lock is released by hand after the flow returned, and not
\* when its exception leaves the handler.
RespondKeepsLockOnRaise(r) ==
    /\ req[r].pc \in {"returned", "raised"}
    /\ req' = [req EXCEPT
           ![r] = [EndRun(@) EXCEPT
               !.pc = "responded",
               !.response =
                   IF req[r].pc = "returned" THEN ResponseBody(req[r].version)
                   ELSE [status_code |-> 500, status |-> "Internal Server Error",
                         has_version |-> FALSE, new_model_version |-> None]]]
    /\ pipeline_lock' = (req[r].pc = "raised")
    /\ UNCHANGED <<modelVersions, alias>>
    /\ UNCHANGED <<pytestVars, genVars>>

\* The await of run_in_executor completes: the handler builds its response
\* (or the flow's exception leaves the handler: unhandled-exception response)
\* and "async with" releases the lock on the way out.
Respond(r) ==
    /\ req[r].pc \in {"returned", "raised"}
    /\ req' = [req EXCEPT
           ![r] = [EndRun(@) EXCEPT
               !.pc = "responded",
               !.response =
                   IF req[r].pc = "returned" THEN ResponseBody(req[r].version)
                   ELSE [status_code |-> 500, status |-> "Internal Server Error",
                         has_version |-> FALSE, new_model_version |-> None]]]
    /\ pipeline_lock' = FALSE
    /\ UNCHANGED <<modelVersions, alias>>
    /\ UNCHANGED <<pytestVars, genVars>>

----------------------------------------------------------------------------
(* run_pytest and the suite in tests/ *)
\* Number of nested pytest processes whose state is kept.  The code does not
\* bound the nesting: once there are more, only the innermost MaxDepth are
\* kept, and from then on only the run in which every launch succeeds is
\* followed (refused launches are explored while all processes are kept).
MaxDepth == 3

\* tests/ in collection order: test_model_accuracy.py, test_model_loss.py,
\* test_pytest_runner.py.
Suite == << "test_model_accuracy_threshold", "test_model_accuracy_not_zero",
            "test_model_loss_threshold", "test_model_loss_is_positive",
            "test_run_pytest_returns_boolean", "test_run_pytest_executes_tests" >>

\* Tests whose assertion depends on random.random(): they pass or fail.
RandomTests == {"test_model_accuracy_threshold", "test_model_loss_threshold"}
\* Tests that call run_pytest() and assert that it returned a bool.
RunnerTests == {"test_run_pytest_returns_boolean", "test_run_pytest_executes_tests"}

\* A pytest process: the next test to run, how many failed so far, and
\* whether its current test is inside run_pytest() waiting for a child.
NewProcess == [next |-> 1, failed |-> 0, waiting |-> FALSE]

BoolStr(b) == IF b THEN "True" ELSE "False"

\* run_pytest: True iff the subprocess was launched and exited with 0.
run_pytest(launchOk, rc) == IF launchOk THEN rc = 0 ELSE FALSE

\* What the outermost caller returns for the suite's exit code.
TopReturn(caller, launchOk, rc) ==
    IF caller = "run_pytest" THEN run_pytest(launchOk, rc)
    ELSE evaluate_model(launchOk, rc, << >>, 0, 0).ret

PytestIdle == /\ stack = << >>
              /\ below = FALSE
              /\ topCaller = "none"
              /\ topResult = "pending"
              /\ launchFailed = FALSE

\* Somebody calls run_pytest() or evaluate_model().
TopCall(caller) ==
    /\ topCaller = "none"
    /\ topCaller' = caller
    /\ UNCHANGED <<stack, below, topResult, launchFailed>>
    /\ UNCHANGED <<mainVars, genVars>>

\* The code that is about to execute subprocess.run(["pytest", "tests/", ...]):
\* the outermost caller, or a runner test of the innermost process.
AtLaunch ==
    \/ topCaller # "none" /\ topResult = "pending" /\ stack = << >>
    \/ /\ stack # << >>
       /\ stack[Len(stack)].next <= Len(Suite)
       /\ Suite[stack[Len(stack)].next] \in RunnerTests
       /\ ~stack[Len(stack)].waiting

\* subprocess.run starts a pytest process and blocks until it exits.
LaunchOk ==
    /\ AtLaunch
    /\ LET parents == IF stack = << >> THEN stack
                      ELSE [stack EXCEPT ![Len(stack)].waiting = TRUE]
       IN  IF Len(stack) < MaxDepth
           THEN /\ stack' = Append(parents, NewProcess)
                /\ UNCHANGED below
           ELSE /\ stack' = Append(Tail(parents), NewProcess)
                /\ below' = TRUE
    /\ UNCHANGED <<topCaller, topResult, launchFailed>>
    /\ UNCHANGED <<mainVars, genVars>>

\* subprocess.run raises (no pytest, no process slot): the except block
\* returns False; in a runner test the assertion on the bool then holds.
LaunchFail ==
    /\ AtLaunch
    /\ ~below
    /\ launchFailed' = TRUE
    /\ IF stack = << >>
       THEN /\ topResult' = BoolStr(TopReturn(topCaller, FALSE, 0))
            /\ UNCHANGED stack
       ELSE /\ stack' = [stack EXCEPT ![Len(stack)].next = @ + 1]
            /\ UNCHANGED topResult
    /\ UNCHANGED <<topCaller, below>>
    /\ UNCHANGED <<mainVars, genVars>>

\* The innermost process runs one of the accuracy/loss tests.
RunPlainTest ==
    /\ stack # << >>
    /\ stack[Len(stack)].next <= Len(Suite)
    /\ Suite[stack[Len(stack)].next] \notin RunnerTests
    /\ \E fails \in BOOLEAN :
         /\ fails => Suite[stack[Len(stack)].next] \in RandomTests
         /\ stack' = [stack EXCEPT
                ![Len(stack)].next = @ + 1,
                ![Len(stack)].failed = IF fails THEN @ + 1 ELSE @]
    /\ UNCHANGED <<below, topCaller, topResult, launchFailed>>
    /\ UNCHANGED <<mainVars, genVars>>

\* The innermost process has run all tests and exits; subprocess.run returns
\* in its parent: the waiting runner test gets a bool and passes, or the
\* outermost caller returns.
ProcessExit ==
    /\ stack # << >>
    /\ stack[Len(stack)].next = Len(Suite) + 1
    /\ LET rc   == IF stack[Len(stack)].failed = 0 THEN 0 ELSE 1
           rest == SubSeq(stack, 1, Len(stack) - 1)
           Resume(parent) == [parent EXCEPT !.waiting = FALSE, !.next = @ + 1]
       IN  IF rest # << >>
           THEN /\ stack' = [rest EXCEPT ![Len(rest)] = Resume(@)]
                /\ UNCHANGED <<below, topResult>>
           ELSE /\ ~below
                /\ stack' = rest
                /\ topResult' = BoolStr(TopReturn(topCaller, TRUE, rc))
                /\ UNCHANGED below
    /\ UNCHANGED <<topCaller, launchFailed>>
    /\ UNCHANGED <<mainVars, genVars>>

----------------------------------------------------------------------------
(* create_oversized_model *)
TARGET_SIZE_BYTES == 210 * 1024 * 1024
MiB == 1024 * 1024

\* Sizes of food11.pth that are tried.
BaseSizes == { 4096, 9 * MiB, 9 * MiB + 1, 9 * MiB + 2, 9 * MiB + 3,
               100 * MiB, 200 * MiB - 1, 200 * MiB, 200 * MiB + 1,
               TARGET_SIZE_BYTES - 8, TARGET_SIZE_BYTES - 5,
               TARGET_SIZE_BYTES - 4, TARGET_SIZE_BYTES - 3,
               TARGET_SIZE_BYTES - 2, TARGET_SIZE_BYTES - 1,
               TARGET_SIZE_BYTES,
               TARGET_SIZE_BYTES + 1, TARGET_SIZE_BYTES + 3,
               TARGET_SIZE_BYTES + 4, 256 * MiB }

\* Bytes torch.save writes beyond the two payloads (pickle and zip records).
SaveOverheads == {0, 512, 65536}

NewGen == [pc |-> "idle", exists |-> FALSE, current_size |-> 0,
           num_elements |-> 0, final_size |-> 0, warned |-> FALSE,
           error |-> "none"]

GenIdle == gen = NewGen

\* Lines 79-93: existence test, load, size, padding arithmetic, torch.randn.
\* Python's // rounds towards minus infinity, as \div does.
GenPad ==
    /\ gen.pc = "idle"
    /\ \E exists \in BOOLEAN, size \in BaseSizes :
         IF ~exists
         THEN gen' = [gen EXCEPT !.pc = "raised", !.error = "FileNotFoundError"]
         ELSE LET current_size   == size
                  padding_needed == TARGET_SIZE_BYTES - current_size
                  num_elements   == padding_needed \div 4
              IN  IF num_elements < 0
                  THEN gen' = [gen EXCEPT !.pc = "raised", !.exists = TRUE,
                                          !.current_size = current_size,
                                          !.num_elements = num_elements,
                                          !.error = "RuntimeError"]
                  ELSE gen' = [gen EXCEPT !.pc = "padded", !.exists = TRUE,
                                          !.current_size = current_size,
                                          !.num_elements = num_elements]
    /\ UNCHANGED <<mainVars, pytestVars>>

\* Lines 98-101: the wrapper holds the base model and the float32 padding;
\* torch.save writes both.
GenSave ==
    /\ gen.pc = "padded"
    /\ \E overhead \in SaveOverheads :
         gen' = [gen EXCEPT !.pc = "saved",
                            !.final_size = gen.current_size
                                           + 4 * gen.num_elements + overhead]
    /\ UNCHANGED <<mainVars, pytestVars>>

\* Lines 104-114: final_size_mb < 200 prints the warning, never raises.
GenVerify ==
    /\ gen.pc = "saved"
    /\ gen' = [gen EXCEPT !.pc = "done",
                          !.warned = (gen.final_size < 200 * MiB)]
    /\ UNCHANGED <<mainVars, pytestVars>>

create_oversized_model == GenPad \/ GenSave \/ GenVerify

MainIdle == /\ pipeline_lock = FALSE
            /\ req = [r \in Requests |-> NewRequest]
            /\ modelVersions = << >>
            /\ alias = None

Init == MainIdle /\ PytestIdle /\ GenIdle

Next ==
    \/ \E r \in Requests, scenario \in Scenarios : trigger_training(r, scenario)
    \/ \E r \in Requests : ml_pipeline_flow(r)
    \/ \E r \in Requests : Respond(r)

Spec == Init /\ [][Next]_vars

NextPytest ==
    \/ \E caller \in {"run_pytest", "evaluate_model"} : TopCall(caller)
    \/ LaunchOk
    \/ LaunchFail
    \/ RunPlainTest
    \/ ProcessExit

\* The operating system runs every process that can run; nothing obliges a
\* launch to fail.
PytestSpec == Init /\ [][NextPytest]_vars
                   /\ WF_vars(LaunchOk)
                   /\ WF_vars(RunPlainTest)
                   /\ WF_vars(ProcessExit)

NextGen == create_oversized_model

GenSpec == Init /\ [][NextGen]_vars

----------------------------------------------------------------------------
(* Properties of the HTTP pipeline, checked under Spec *)
AllTasks == {"load_and_train_model", "evaluate_model", "register_model_if_passed"}
CounterNames == {"tests_passed", "tests_failed", "tests_total"}

\* The request holds the lock: its flow is executing or has just ended and
\* the handler has not answered yet.  Only then are the run's locals there.
Live(r) == req[r].pc \in {"load", "evaluate", "register", "returned", "raised"}

MetricNames(m) == {m[i].name : i \in 1 .. Len(m)}
VersionsOf(r) == {i \in 1 .. Len(modelVersions) : modelVersions[i] = r}

\* C1: at most one request holds the lock / executes ml_pipeline_flow at any
\* time, the lock is held exactly while some request is live, and a request
\* answered 423 never started any of the three tasks.
C1_AtMostOneInFlight ==
    /\ Cardinality({r \in Requests : Live(r)}) <= 1
    /\ pipeline_lock <=> (\E r \in Requests : Live(r))
    /\ \A r \in Requests :
         req[r].response.status_code = 423 =>
             /\ req[r].started = {}
             /\ req[r].pc = "responded"

C1_Witness ==
    \E r1, r2 \in Requests :
        /\ r1 # r2
        /\ req[r1].pc = "evaluate"
        /\ req[r2].response.status_code = 423

\* C2: once register_model_if_passed has run: with passed = False it made no
\* registry call, registered nothing and returned None; with passed = True
\* and a normal return it called register_model once and then
\* set_registered_model_alias once and returned the version the registry
\* assigned to this run; it never calls either more than once, nor the alias
\* call without the register call.
C2_RegistrarGate ==
    \A r \in Requests :
        (Live(r) /\ "register_model_if_passed" \in req[r].started) =>
            /\ req[r].regCalls <= 1
            /\ req[r].aliasCalls <= req[r].regCalls
            /\ Cardinality(VersionsOf(r)) <= req[r].regCalls
            /\ ~req[r].passed =>
                   /\ req[r].regCalls = 0
                   /\ req[r].aliasCalls = 0
                   /\ req[r].version = None
                   /\ VersionsOf(r) = {}
                   /\ req[r].pc = "returned"
            /\ (req[r].passed /\ req[r].pc = "returned") =>
                   /\ req[r].regCalls = 1
                   /\ req[r].aliasCalls = 1
                   /\ VersionsOf(r) = {req[r].version}

C2_Witness ==
    \E r1, r2 \in Requests :
        /\ req[r1].pc = "responded" /\ req[r1].version = 1
        /\ req[r2].pc = "returned" /\ req[r2].passed /\ req[r2].version = 2

\* C3: whenever the subprocess returned an exit code and evaluate_model
\* returned, the returned boolean equals (exit code = 0).
C3_BooleanIsExitCodeZero ==
    \A r \in Requests :
        (Live(r) /\ "evaluate_model" \in req[r].completed /\ req[r].launched) =>
            (req[r].passed <=> (req[r].returncode = 0))

\* C4: the path the loader uses is food11.pth for "normal", bad_model.pth for
\* "bad-architecture", oversized_model.pth for "oversized" and food11.pth for
\* every other scenario, which then loads the same model as "normal" and is
\* never stopped by the selector or by torch.load.
C4_SelectorTable ==
    \A r \in Requests :
        (Live(r) /\ "load_and_train_model" \in req[r].started) =>
            /\ req[r].scenario = "normal" => req[r].model_path = "food11.pth"
            /\ req[r].scenario = "bad-architecture" => req[r].model_path = "bad_model.pth"
            /\ req[r].scenario = "oversized" => req[r].model_path = "oversized_model.pth"
            /\ req[r].scenario \notin {"normal", "bad-architecture", "oversized"} =>
                   /\ req[r].model_path = "food11.pth"
                   /\ req[r].error # "torch.load"
                   /\ req[r].model = "MobileNetV2"

C4_Witness ==
    \E r \in Requests :
        /\ req[r].scenario = "Normal"
        /\ req[r].pc = "returned"
        /\ req[r].model_path = "food11.pth"

\* C5 as stated: a "bad-architecture" run never gets past the loader: the
\* loader does not return, evaluate_model and register_model_if_passed are
\* not started and no metric is logged.
C5_BadArchitectureStopsInLoader ==
    \A r \in Requests :
        (Live(r) /\ req[r].scenario = "bad-architecture") =>
            /\ "load_and_train_model" \notin req[r].completed
            /\ "evaluate_model" \notin req[r].started
            /\ "register_model_if_passed" \notin req[r].started
            /\ req[r].metrics = << >>

\* C5 amended: in a "bad-architecture" run torch.load returns the ResNet18
\* module of bad_model.pth; the loader raises only when log_model fails, and
\* otherwise returns, so that the run goes on to the evaluator.
C5_BadArchitectureLoads ==
    \A r \in Requests :
        (Live(r) /\ req[r].scenario = "bad-architecture"
                 /\ "load_and_train_model" \in req[r].started) =>
            /\ req[r].model_path = "bad_model.pth"
            /\ req[r].model = "ResNet18"
            /\ req[r].error # "torch.load"
            /\ "load_and_train_model" \notin req[r].completed =>
                   (req[r].pc = "raised" /\ req[r].error = "log_model")

C5_Witness ==
    \E r \in Requests :
        /\ req[r].scenario = "bad-architecture"
        /\ req[r].pc = "returned"
        /\ MetricNames(req[r].metrics) = CounterNames
        /\ req[r].version # None

\* C6: a run in which a tracking/registry call raised has ended with that
\* exception leaving ml_pipeline_flow (no task swallowed it).
C6_TrackingFailuresPropagate ==
    \A r \in Requests :
        (Live(r) /\ req[r].failures # {}) => req[r].pc = "raised"

\* C7 as stated: every evaluate_model that returned has logged the three
\* counters and, as a fourth metric, the pass/fail boolean.
C7_CountersAndBooleanLogged ==
    \A r \in Requests :
        (Live(r) /\ "evaluate_model" \in req[r].completed) =>
            /\ CounterNames \subseteq MetricNames(req[r].metrics)
            /\ MetricNames(req[r].metrics) \ CounterNames # {}

\* C7 amended: every evaluate_model that returned has logged tests_passed,
\* tests_failed and tests_total (and nothing else: the boolean is only
\* returned); when the subprocess could not be launched the three are logged
\* as zero and the result is False.
C7_CountersLogged ==
    \A r \in Requests :
        (Live(r) /\ "evaluate_model" \in req[r].completed) =>
            /\ MetricNames(req[r].metrics) = CounterNames
            /\ ~req[r].launched =>
                   /\ ~req[r].passed
                   /\ Len(req[r].metrics) = 3
                   /\ \A i \in 1 .. 3 : req[r].metrics[i].value = 0

C7_Witness ==
    \E r \in Requests :
        /\ req[r].pc = "register"
        /\ ~req[r].launched
        /\ MetricNames(req[r].metrics) = CounterNames

\* C8: an answer other than 423 is given only after the run ended; a 200 is
\* given only after all three tasks returned; its body has new_model_version
\* exactly when the registrar returned a version, which is then the version
\* the registry holds for this run; otherwise it has the "no new model
\* registered" status and no version.
C8_ResponseAfterChain ==
    \A r \in Requests :
        req[r].pc = "responded" =>
            LET resp == req[r].response
            IN  /\ resp.status_code \in {200, 423, 500}
                /\ resp.status_code = 200 <=> req[r].completed = AllTasks
                /\ resp.status_code = 200 =>
                       /\ resp.has_version <=> req[r].version # None
                       /\ resp.has_version <=> VersionsOf(r) # {}
                       /\ resp.has_version =>
                              /\ resp.new_model_version = req[r].version
                              /\ VersionsOf(r) = {resp.new_model_version}
                              /\ resp.status = "Pipeline executed successfully"
                       /\ ~resp.has_version =>
                              /\ resp.new_model_version = None
                              /\ resp.status =
                                     "Pipeline executed, but no new model registered"
                /\ resp.status_code # 200 => ~resp.has_version

C8_Witness ==
    \E r1, r2 \in Requests :
        /\ req[r1].pc = "responded" /\ req[r1].response.status_code = 200
        /\ req[r1].response.has_version
        /\ req[r2].pc = "responded" /\ req[r2].response.status_code = 200
        /\ ~req[r2].response.has_version

\* Versions whose run got them back from register_model_if_passed, that is
\* for which register_model and set_registered_model_alias both succeeded.
AliasedVersions ==
    {v \in 1 .. Len(modelVersions) : req[modelVersions[v]].version = v}

Highest(S) == CHOOSE v \in S : \A w \in S : w <= v

NoRunInFlight == \A r \in Requests : ~Live(r)

\* C11 as stated: whenever no run is in flight, the alias points to the
\* highest version the registry has assigned (to nothing while there is
\* none), also after a run in which a registry call failed.
C11_AliasIsHighestVersion ==
    NoRunInFlight =>
        alias = IF modelVersions = << >> THEN None ELSE Len(modelVersions)

\* C11 amended: at any time, so also whenever no run is in flight, the alias
\* points to the highest version whose run completed both register_model and
\* set_registered_model_alias (to nothing while there is none); it never
\* points beyond the versions the registry has assigned, and it is the
\* highest of them when no alias call has failed.
C11_AliasIsHighestAliased ==
    /\ alias = IF AliasedVersions = {} THEN None ELSE Highest(AliasedVersions)
    /\ alias <= Len(modelVersions)
    /\ (AliasedVersions = 1 .. Len(modelVersions) /\ modelVersions # << >>) =>
           alias = Len(modelVersions)

\* Two runs have ended: the first registered version 1 and set the alias, the
\* second registered version 2 and its alias call raised.
C11_Witness ==
    /\ NoRunInFlight
    /\ Len(modelVersions) = 2
    /\ alias = 1
    /\ req[modelVersions[2]].response.status_code = 500

\* C12: every step in which an accepted request leaves trigger_training,
\* with its response or with the flow's exception, releases the lock; a
\* rejected request leaves the lock with its holder; the lock stays held as
\* long as the accepted request is live; and a request that arrives when no
\* run is in flight, whatever way the earlier runs ended, is accepted (it
\* takes the lock and starts its flow) and not answered 423.
C12_LockReleasedOnEveryExit ==
    [][ /\ \A r \in Requests :
              (Live(r) /\ req'[r].pc = "responded") => ~pipeline_lock'
        /\ \A r \in Requests :
              (Live(r) /\ req'[r].pc # "responded") => pipeline_lock'
        /\ \A r \in Requests :
              (req[r].pc = "idle" /\ req'[r].pc = "responded") =>
                  /\ ~NoRunInFlight
                  /\ pipeline_lock /\ pipeline_lock'
        /\ \A r \in Requests :
              (req[r].pc = "idle" /\ req'[r].pc # "idle" /\ NoRunInFlight) =>
                  /\ req'[r].pc = "load"
                  /\ req'[r].response.status_code # 423
                  /\ pipeline_lock'
      ]_vars

\* A run ended with an exception (answer 500) and a later request has been
\* accepted and is in its flow.
C12_Witness ==
    \E r1, r2 \in Requests :
        /\ req[r1].pc = "responded"
        /\ req[r1].response.status_code = 500
        /\ req[r2].pc = "load"
        /\ pipeline_lock

----------------------------------------------------------------------------
(* Properties of run_pytest, checked under PytestSpec *)
\* C9: every call of run_pytest (or evaluate_model) eventually returns a
\* boolean.
C9_CallReturns == (topCaller # "none") ~> (topResult \in {"True", "False"})

\* The outermost call returns only in runs where some launch was refused:
\* as long as every subprocess.run succeeds, each pytest process waits for a
\* child that runs the same suite.
ReturnNeedsLaunchFailure == topResult # "pending" => launchFailed

----------------------------------------------------------------------------
(* Properties of create_oversized_model, checked under GenSpec *)
\* C10: whatever the size of an existing food11.pth, create_oversized_model
\* ends without raising and the file it wrote has at least 200 MiB.
C10_OversizedForEverySize ==
    (gen.exists /\ gen.pc \in {"done", "raised"}) =>
        /\ gen.pc = "done"
        /\ gen.final_size >= 200 * MiB

\* For an existing food11.pth of at most TARGET_SIZE_BYTES the function ends
\* normally, the file written misses the target by less than one float32 and
\* the warning is not printed.
GenWithinTarget ==
    (gen.exists /\ gen.current_size <= TARGET_SIZE_BYTES
                /\ gen.pc \in {"done", "raised"}) =>
        /\ gen.pc = "done"
        /\ gen.final_size >= TARGET_SIZE_BYTES - 3
        /\ ~gen.warned

====
